---- MODULE Spec2Model ----
(***************************************************************************)
(* Model of CrosswordCreator (src/generate.py): the crossword CSP solver.  *)
(* Domain store, node consistency, revise / AC-3, the consistency and      *)
(* completeness predicates, variable and value ordering, and backtracking. *)
(*                                                                         *)
(* Words are sequences of letters.  Overlap indices are 0-based as in the  *)
(* source; a word w is indexed as w[k + 1].  A Python set or dict is       *)
(* modelled by the sequence of its elements in iteration order; the        *)
(* iteration order of the slot set is chosen in Init, the iteration order  *)
(* of a set of words is the order WordKey.                                 *)
(***************************************************************************)
EXTENDS Integers, Sequences, FiniteSets, TLC

VARIABLES crossword, domains, pc, queue, acResult, stack, retval, result, call

vars == <<crossword, domains, pc, queue, acResult, stack, retval, result, call>>

----------------------------------------------------------------------------
(* Bounds of the model *)

\* largest vocabulary of a solve() run
MaxVocab == 4

\* largest vocabulary where operations are applied to arbitrary states and
\* where whole behaviours are examined
MaxFnVocab == 2

Letters == {"a", "b"}

WordLengths == {2, 3}

----------------------------------------------------------------------------
(* Generic helpers *)

Range(s) == {s[k] : k \in 1..Len(s)}

Ord(c) == IF c = "a" THEN 1 ELSE 2

RECURSIVE WordKey(_)
WordKey(w) == IF w = <<>> THEN 0 ELSE 3 * WordKey(SubSeq(w, 1, Len(w) - 1)) + Ord(w[Len(w)])

\* iteration order of a Python set of words
RECURSIVE SetToSeq(_)
SetToSeq(S) ==
    IF S = {} THEN <<>>
    ELSE LET m == CHOOSE w \in S : \A v \in S : WordKey(w) <= WordKey(v)
         IN <<m>> \o SetToSeq(S \ {m})

WordsOfLen(n) == [1..n -> Letters]

WordPool == UNION {WordsOfLen(n) : n \in WordLengths}

Vocabularies(n) == {V \in SUBSET WordPool : Cardinality(V) <= n}

\* the orders in which a set with the elements of s can be iterated
IterationOrders(s) ==
    {t \in [1..Len(s) -> Range(s)] : Range(t) = Range(s)}

----------------------------------------------------------------------------
(* Slot model: Variable and Crossword of the crossword module *)

ACROSS == "across"

DOWN == "down"

Variable(i, j, direction, length) ==
    [i |-> i, j |-> j, direction |-> direction, length |-> length]

\* cells of a slot, in word order
Cells(v) ==
    [k \in 1..v.length |->
        <<v.i + (IF v.direction = DOWN THEN k - 1 ELSE 0),
          v.j + (IF v.direction = ACROSS THEN k - 1 ELSE 0)>>]

IndexOf(s, e) == (CHOOSE k \in 1..Len(s) : s[k] = e) - 1

\* overlaps[x, y]: the 0-based index pair of the shared cell, <<>> when none
Overlaps(x, y) ==
    LET shared == Range(Cells(x)) \cap Range(Cells(y))
    IN IF shared = {} THEN <<>>
       ELSE LET c == CHOOSE c \in shared : TRUE
            IN <<IndexOf(Cells(x), c), IndexOf(Cells(y), c)>>

\* neighbors(var), in the iteration order of the slot set
Neighbors(cw, var) ==
    SelectSeq(cw.variables, LAMBDA v : v # var /\ Overlaps(v, var) # <<>>)

\* grid shapes: one slot; two crossing slots; a chain of three; two apart
Grids ==
    { <<Variable(0, 0, ACROSS, 2)>>,
      <<Variable(0, 0, ACROSS, 2), Variable(0, 1, DOWN, 2)>>,
      <<Variable(0, 0, ACROSS, 2), Variable(0, 1, DOWN, 3), Variable(2, 1, ACROSS, 2)>>,
      <<Variable(0, 0, ACROSS, 2), Variable(2, 0, ACROSS, 3)>> }

Crosswords(n) ==
    {[variables |-> vs, words |-> V] :
        vs \in UNION {IterationOrders(g) : g \in Grids}, V \in Vocabularies(n)}

Slots(cw) == Range(cw.variables)

----------------------------------------------------------------------------
(* Python values *)

None == [kind |-> "None"]

Value(v) == [kind |-> "value", value |-> v]

NoCall == [op |-> "none"]

----------------------------------------------------------------------------
(* Domain store and node consistency *)

\* __init__: every slot starts with a copy of the whole vocabulary
InitialDomains(cw) == [v \in Slots(cw) |-> SetToSeq(cw.words)]

\* enforce_node_consistency keeping every word that is not too long
EnforceNodeConsistencyAtMost(doms) ==
    [val \in DOMAIN doms |-> SelectSeq(doms[val], LAMBDA x : Len(x) <= val.length)]

\* enforce_node_consistency: keep the words of the slot's length
EnforceNodeConsistency(doms) ==
    [val \in DOMAIN doms |-> SelectSeq(doms[val], LAMBDA x : Len(x) = val.length)]

----------------------------------------------------------------------------
(* Arc consistency *)

\* revise keeping only the words that agree with every word of y
ReviseAll(doms, x, y) ==
    LET domain_x == doms[x]
        domain_y == doms[y]
        x_i == Overlaps(x, y)[1]
        y_i == Overlaps(x, y)[2]
        Compatible(word_x) ==
            {k \in 1..Len(domain_y) : word_x[x_i + 1] = domain_y[k][y_i + 1]}
        new_domain_x ==
            SelectSeq(domain_x, LAMBDA word_x : Compatible(word_x) = 1..Len(domain_y))
    IN [domains |-> [doms EXCEPT ![x] = new_domain_x],
        ret |-> Len(new_domain_x) # Len(domain_x)]

\* revise keeping the words that agree with no word of y
ReviseInverted(doms, x, y) ==
    LET domain_x == doms[x]
        domain_y == doms[y]
        x_i == Overlaps(x, y)[1]
        y_i == Overlaps(x, y)[2]
        Compatible(word_x) ==
            {k \in 1..Len(domain_y) : word_x[x_i + 1] = domain_y[k][y_i + 1]}
        new_domain_x == SelectSeq(domain_x, LAMBDA word_x : Compatible(word_x) = {})
    IN [domains |-> [doms EXCEPT ![x] = new_domain_x],
        ret |-> Len(new_domain_x) # Len(domain_x)]

\* revise comparing the new size of domain(x) with the size of domain(y)
ReviseFlagOfY(doms, x, y) ==
    LET domain_x == doms[x]
        domain_y == doms[y]
        x_i == Overlaps(x, y)[1]
        y_i == Overlaps(x, y)[2]
        Compatible(word_x) ==
            {k \in 1..Len(domain_y) : word_x[x_i + 1] = domain_y[k][y_i + 1]}
        new_domain_x == SelectSeq(domain_x, LAMBDA word_x : Compatible(word_x) # {})
    IN [domains |-> [doms EXCEPT ![x] = new_domain_x],
        ret |-> Len(new_domain_x) # Len(domain_y)]

\* revise making each of the two slots consistent with the other
ReviseBoth(doms, x, y) ==
    LET Supported(a, b) ==
            SelectSeq(doms[a], LAMBDA word_a :
                \E k \in 1..Len(doms[b]) :
                    word_a[Overlaps(a, b)[1] + 1] = doms[b][k][Overlaps(a, b)[2] + 1])
    IN [domains |-> [doms EXCEPT ![x] = Supported(x, y), ![y] = Supported(y, x)],
        ret |-> Len(Supported(x, y)) # Len(doms[x])]

\* revise(x, y): the new domain store and the returned flag
Revise(doms, x, y) ==
    LET domain_x == doms[x]
        domain_y == doms[y]
        x_i == Overlaps(x, y)[1]
        y_i == Overlaps(x, y)[2]
        Compatible(word_x) ==
            {k \in 1..Len(domain_y) : word_x[x_i + 1] = domain_y[k][y_i + 1]}
        new_domain_x == SelectSeq(domain_x, LAMBDA word_x : Compatible(word_x) # {})
    IN [domains |-> [doms EXCEPT ![x] = new_domain_x],
        ret |-> Len(new_domain_x) # Len(domain_x)]

RECURSIVE Flatten(_)
Flatten(ss) == IF ss = <<>> THEN <<>> ELSE Head(ss) \o Flatten(Tail(ss))

\* the arcs (n, x) for each neighbour n of x
ArcsTo(cw, x) ==
    LET ns == Neighbors(cw, x) IN [k \in 1..Len(ns) |-> <<ns[k], x>>]

\* the arcs (x, n) for each neighbour n of x
ArcsFrom(cw, x) ==
    LET ns == Neighbors(cw, x) IN [k \in 1..Len(ns) |-> <<x, ns[k]>>]

\* ac3 with arcs = None: every slot paired with each of its neighbours
AllArcs(cw) ==
    Flatten([k \in 1..Len(cw.variables) |-> ArcsFrom(cw, cw.variables[k])])

\* the worklist as it is when the front arc is read but not removed
PopKeepsFront(q) == q

\* queue.pop(0): the rest of the worklist
Pop(q) == Tail(q)

\* one iteration of the loop of ac3: the domain store, the worklist and,
\* when the iteration returns, the returned flag
AC3Iteration(cw, doms, q) ==
    LET x == Head(q)[1]
        y == Head(q)[2]
        r == Revise(doms, x, y)
    IN IF r.ret
       THEN IF Len(r.domains[x]) = 0
            THEN [domains |-> r.domains, queue |-> Pop(q), returns |-> TRUE, ret |-> FALSE]
            ELSE [domains |-> r.domains, queue |-> Pop(q) \o ArcsFrom(cw, x),
                  returns |-> FALSE, ret |-> FALSE]
       ELSE [domains |-> r.domains, queue |-> Pop(q), returns |-> FALSE, ret |-> FALSE]

----------------------------------------------------------------------------
(* Assignments: a dict from slot to word, as its items in insertion order *)

Item(var, word) == [var |-> var, word |-> word]

Keys(assignment) == {assignment[k].var : k \in 1..Len(assignment)}

\* assignment[var], for var in Keys(assignment)
Get(assignment, var) ==
    assignment[CHOOSE k \in 1..Len(assignment) : assignment[k].var = var].word

\* assignment_complete accepting an assignment that holds any slot
AssignmentCompleteAny(cw, assignment) ==
    \E var \in Slots(cw) : var \in Keys(assignment)

\* assignment_complete
AssignmentComplete(cw, assignment) ==
    \A var \in Slots(cw) : var \in Keys(assignment)

\* NeighborScan comparing both words at the index of var
RECURSIVE NeighborScanSameIndex(_, _, _, _, _)
NeighborScanSameIndex(cw, assignment, var, word, n) ==
    LET ns == Neighbors(cw, var) IN
    IF n > Len(ns) THEN "ok"
    ELSE LET neighbor == ns[n] IN
         IF neighbor \notin Keys(assignment) THEN "KeyError"
         ELSE LET neighbor_word == Get(assignment, neighbor)
                  var_i == Overlaps(var, neighbor)[1]
              IN IF var_i + 1 > Len(neighbor_word) THEN "IndexError"
                 ELSE IF word[var_i + 1] # neighbor_word[var_i + 1] THEN "False"
                 ELSE NeighborScanSameIndex(cw, assignment, var, word, n + 1)

\* the neighbour loop of consistent for one item, from neighbour n on:
\* "ok" when no neighbour objects, else the way the scan ends
RECURSIVE NeighborScan(_, _, _, _, _)
NeighborScan(cw, assignment, var, word, n) ==
    LET ns == Neighbors(cw, var) IN
    IF n > Len(ns) THEN "ok"
    ELSE LET neighbor == ns[n] IN
         IF neighbor \notin Keys(assignment) THEN "KeyError"
         ELSE LET neighbor_word == Get(assignment, neighbor)
                  var_i == Overlaps(var, neighbor)[1]
                  neighbor_i == Overlaps(var, neighbor)[2]
              IN IF neighbor_i + 1 > Len(neighbor_word) THEN "IndexError"
                 ELSE IF word[var_i + 1] # neighbor_word[neighbor_i + 1] THEN "False"
                 ELSE NeighborScan(cw, assignment, var, word, n + 1)

\* consistent, scanning the items from item k on: "True", "False", or the
\* error the lookup raises
RECURSIVE ConsistentFrom(_, _, _)
ConsistentFrom(cw, assignment, k) ==
    IF k > Len(assignment) THEN "True"
    ELSE LET var == assignment[k].var
             word == assignment[k].word
             present_words == {assignment[m].word : m \in 1..(k - 1)}
         IN IF word \in present_words \/ Len(word) # var.length THEN "False"
            ELSE LET scan == NeighborScan(cw, assignment, var, word, 1)
                 IN IF scan = "ok" THEN ConsistentFrom(cw, assignment, k + 1)
                    ELSE scan

Consistent(cw, assignment) == ConsistentFrom(cw, assignment, 1)

----------------------------------------------------------------------------
(* Variable and value ordering *)

SetMin(S) == CHOOSE m \in S : \A n \in S : m <= n

SetMax(S) == CHOOSE m \in S : \A n \in S : m >= n

\* select_unassigned_variable preferring the largest domains
SelectUnassignedVariableMost(cw, doms, assignment) ==
    LET remaining_variables ==
            SelectSeq(cw.variables, LAMBDA variable : variable \notin Keys(assignment))
        number_of_values(variable) == Len(doms[variable])
        max_values == SetMax({number_of_values(v) : v \in Range(remaining_variables)})
        max_remaining_values ==
            SelectSeq(remaining_variables, LAMBDA variable : number_of_values(variable) = max_values)
        degree(variable) == Len(Neighbors(cw, variable))
        min_degree == SetMin({degree(v) : v \in Range(max_remaining_values)})
        remaining_min_degree ==
            SelectSeq(max_remaining_values, LAMBDA variable : degree(variable) = min_degree)
    IN IF Len(remaining_variables) = 1
       THEN {max_remaining_values[1]}
       ELSE Range(remaining_min_degree)

\* select_unassigned_variable: the slots random.choice may return
SelectUnassignedVariable(cw, doms, assignment) ==
    LET remaining_variables ==
            SelectSeq(cw.variables, LAMBDA variable : variable \notin Keys(assignment))
        number_of_values(variable) == Len(doms[variable])
        min_values == SetMin({number_of_values(v) : v \in Range(remaining_variables)})
        min_remaining_values ==
            SelectSeq(remaining_variables, LAMBDA variable : number_of_values(variable) = min_values)
        degree(variable) == Len(Neighbors(cw, variable))
        min_degree == SetMin({degree(v) : v \in Range(min_remaining_values)})
        remaining_min_degree ==
            SelectSeq(min_remaining_values, LAMBDA variable : degree(variable) = min_degree)
    IN IF Len(remaining_variables) = 1
       THEN {min_remaining_values[1]}
       ELSE Range(remaining_min_degree)

\* list.sort(key): stable, ascending; keys lie in 0..maxKey
RECURSIVE StableSort(_, _, _, _)
StableSort(values, Key(_), key, maxKey) ==
    IF key > maxKey THEN <<>>
    ELSE SelectSeq(values, LAMBDA v : Key(v) = key) \o StableSort(values, Key, key + 1, maxKey)

\* order_domain_values without the sort by cost
OrderDomainValuesUnsorted(cw, doms, var, assignment) == doms[var]

\* order_domain_values
OrderDomainValues(cw, doms, var, assignment) ==
    LET ns == Neighbors(cw, var)
        best_value(value) ==
            Cardinality({n \in 1..Len(ns) :
                ns[n] \in Keys(assignment) /\ Get(assignment, ns[n]) = value})
    IN StableSort(doms[var], best_value, 0, Len(ns))

----------------------------------------------------------------------------
(* solve(): node consistency, then ac3, then backtrack(dict()) *)

Frame(assignment) == [at |-> "enter", assignment |-> assignment]

Init ==
    /\ crossword \in Crosswords(MaxVocab)
    /\ domains = InitialDomains(crossword)
    /\ pc = "solve"
    /\ queue = <<>>
    /\ acResult = None
    /\ stack = <<>>
    /\ retval = None
    /\ result = None
    /\ call = NoCall

\* solve, line 93
SolveNodeConsistency ==
    /\ pc = "solve"
    /\ domains' = EnforceNodeConsistency(domains)
    /\ pc' = "ac3"
    /\ UNCHANGED <<crossword, queue, acResult, stack, retval, result, call>>

\* ac3 called with arcs = None: the worklist is seeded with every arc
AC3Begin ==
    /\ pc = "ac3"
    /\ queue' = AllArcs(crossword)
    /\ pc' = "ac3_loop"
    /\ UNCHANGED <<crossword, domains, acResult, stack, retval, result, call>>

\* one iteration of the while loop of ac3
AC3Step ==
    /\ pc = "ac3_loop"
    /\ Len(queue) # 0
    /\ LET it == AC3Iteration(crossword, domains, queue)
       IN /\ domains' = it.domains
          /\ queue' = it.queue
          /\ IF it.returns
             THEN acResult' = Value(it.ret) /\ pc' = "ac3_done"
             ELSE UNCHANGED <<acResult, pc>>
    /\ UNCHANGED <<crossword, stack, retval, result, call>>

\* the worklist is empty: ac3 returns True
AC3Exit ==
    /\ pc = "ac3_loop"
    /\ Len(queue) = 0
    /\ acResult' = Value(TRUE)
    /\ pc' = "ac3_done"
    /\ UNCHANGED <<crossword, domains, queue, stack, retval, result, call>>

\* solve, line 95: backtrack(dict()); the flag of ac3 is not consulted
SolveBacktrack ==
    /\ pc = "ac3_done"
    /\ stack' = <<Frame(<<>>)>>
    /\ pc' = "backtrack"
    /\ UNCHANGED <<crossword, domains, queue, acResult, retval, result, call>>

Top == stack[Len(stack)]

Caller == SubSeq(stack, 1, Len(stack) - 1)

\* backtrack is entered: a complete assignment is returned or rejected, an
\* incomplete one gets its slot and the ordered values of that slot
BacktrackEnter ==
    /\ pc = "backtrack"
    /\ Top.at = "enter"
    /\ LET assignment == Top.assignment IN
       IF AssignmentComplete(crossword, assignment)
       THEN LET c == Consistent(crossword, assignment) IN
            IF c \in {"True", "False"}
            THEN /\ retval' = IF c = "True" THEN Value(assignment) ELSE None
                 /\ stack' = Caller
                 /\ pc' = "return"
                 /\ UNCHANGED result
            ELSE /\ result' = [kind |-> c]
                 /\ stack' = <<>>
                 /\ pc' = "done"
                 /\ UNCHANGED retval
       ELSE \E treated_var \in SelectUnassignedVariable(crossword, domains, assignment) :
                /\ stack' = Caller \o
                       <<[at |-> "loop", assignment |-> assignment,
                          treated_var |-> treated_var,
                          possible_values |->
                              OrderDomainValues(crossword, domains, treated_var, assignment),
                          next |-> 1]>>
                /\ UNCHANGED <<pc, retval, result>>
    /\ UNCHANGED <<crossword, domains, queue, acResult, call>>

\* a new dict that holds the one new item only
ExtendFresh(assignment, var, value) == <<Item(var, value)>>

\* assignment.copy() with treated_var set to possible_value
Extend(assignment, var, value) == Append(assignment, Item(var, value))

\* the for loop staying at the value it has just tried
NextIndexSame(k) == k

\* the for loop moves on to the value after value k
NextIndex(k) == k + 1

\* the assignment handed back in place of None when the values are exhausted
ExhaustedReturnsAssignment(assignment) == Value(assignment)

\* backtrack runs off its end when the values are exhausted: it returns None
Exhausted(assignment) == None

\* the for loop of backtrack: the next value is tried on a copy of the
\* assignment, or the values are exhausted and None is returned
BacktrackLoop ==
    /\ pc = "backtrack"
    /\ Top.at = "loop"
    /\ IF Top.next <= Len(Top.possible_values)
       THEN LET possible_assignment ==
                    Extend(Top.assignment, Top.treated_var, Top.possible_values[Top.next])
            IN /\ stack' = Caller \o <<[Top EXCEPT !.next = NextIndex(@)]>>
                                \o <<Frame(possible_assignment)>>
               /\ UNCHANGED <<pc, retval>>
       ELSE /\ retval' = Exhausted(Top.assignment)
            /\ stack' = Caller
            /\ pc' = "return"
    /\ UNCHANGED <<crossword, domains, queue, acResult, result, call>>

\* a recursive call has returned new_assignment to the loop of its caller
BacktrackResume ==
    /\ pc = "return"
    /\ Len(stack) # 0
    /\ IF retval # None
       THEN stack' = Caller /\ UNCHANGED pc
       ELSE pc' = "backtrack" /\ UNCHANGED stack
    /\ UNCHANGED <<crossword, domains, queue, acResult, retval, result, call>>

\* the outermost backtrack has returned: solve returns its result
SolveReturn ==
    /\ pc = "return"
    /\ Len(stack) = 0
    /\ result' = retval
    /\ pc' = "done"
    /\ UNCHANGED <<crossword, domains, queue, acResult, stack, retval, call>>

Next ==
    \/ SolveNodeConsistency
    \/ AC3Begin
    \/ AC3Step
    \/ AC3Exit
    \/ SolveBacktrack
    \/ BacktrackEnter
    \/ BacktrackLoop
    \/ BacktrackResume
    \/ SolveReturn

Spec == Init /\ [][Next]_vars

\* solve() on the small vocabularies
InitSmall ==
    /\ crossword \in Crosswords(MaxFnVocab)
    /\ domains = InitialDomains(crossword)
    /\ pc = "solve"
    /\ queue = <<>>
    /\ acResult = None
    /\ stack = <<>>
    /\ retval = None
    /\ result = None
    /\ call = NoCall

\* the interpreter runs solve() on: a step that can be taken is taken
FairSpec == InitSmall /\ [][Next]_vars /\ WF_vars(Next)

----------------------------------------------------------------------------
(* Single operations applied to an arbitrary node-consistent domain store *)
(* and to arbitrary assignments                                            *)

\* the domain stores whose words all fit their slots
DomainStores(cw) ==
    [Slots(cw) -> {SetToSeq(D) : D \in SUBSET cw.words}] \cap
    {doms \in [Slots(cw) -> Seq(WordPool)] :
        \A v \in Slots(cw) : \A k \in 1..Len(doms[v]) : Len(doms[v][k]) = v.length}

Items(cw) == {Item(var, word) : var \in Slots(cw), word \in cw.words}

\* the dicts from some of the slots to words of the vocabulary
Assignments(cw) ==
    {a \in UNION {[1..n -> Items(cw)] : n \in 0..Len(cw.variables)} :
        \A k, m \in 1..Len(a) : k # m => a[k].var # a[m].var}

InitFn ==
    /\ crossword \in Crosswords(MaxFnVocab)
    /\ domains \in DomainStores(crossword)
    /\ pc = "idle"
    /\ queue = <<>>
    /\ acResult = None
    /\ stack = <<>>
    /\ retval = None
    /\ result = None
    /\ call = NoCall

CallRevise ==
    /\ pc = "idle"
    /\ \E x, y \in Slots(crossword) :
          /\ x # y
          /\ Overlaps(x, y) # <<>>
          /\ LET r == Revise(domains, x, y)
             IN /\ domains' = r.domains
                /\ call' = [op |-> "revise", x |-> x, y |-> y,
                            before |-> domains, ret |-> r.ret]
    /\ pc' = "returned"
    /\ UNCHANGED <<crossword, queue, acResult, stack, retval, result>>

\* consistent does not read the domain store: it is applied in the store
\* that node consistency leaves
CallConsistent ==
    /\ pc = "idle"
    /\ domains = EnforceNodeConsistency(InitialDomains(crossword))
    /\ \E assignment \in Assignments(crossword) :
          call' = [op |-> "consistent", assignment |-> assignment,
                   ret |-> Consistent(crossword, assignment)]
    /\ pc' = "returned"
    /\ UNCHANGED <<crossword, domains, queue, acResult, stack, retval, result>>

CallSelectUnassignedVariable ==
    /\ pc = "idle"
    /\ \E assignment \in Assignments(crossword) :
          /\ ~AssignmentComplete(crossword, assignment)
          /\ \E var \in SelectUnassignedVariable(crossword, domains, assignment) :
                call' = [op |-> "select_unassigned_variable",
                         assignment |-> assignment, ret |-> var]
    /\ pc' = "returned"
    /\ UNCHANGED <<crossword, domains, queue, acResult, stack, retval, result>>

\* order_domain_values is applied, as backtrack applies it, to a slot that
\* the assignment leaves open
CallOrderDomainValues ==
    /\ pc = "idle"
    /\ \E assignment \in Assignments(crossword) :
          \E var \in Slots(crossword) \ Keys(assignment) :
              call' = [op |-> "order_domain_values", var |-> var,
                       assignment |-> assignment,
                       ret |-> OrderDomainValues(crossword, domains, var, assignment)]
    /\ pc' = "returned"
    /\ UNCHANGED <<crossword, domains, queue, acResult, stack, retval, result>>

NextFn ==
    \/ CallRevise
    \/ CallConsistent
    \/ CallSelectUnassignedVariable
    \/ CallOrderDomainValues

SpecFn == InitFn /\ [][NextFn]_vars

----------------------------------------------------------------------------
(* What a solution is, stated on the slot model alone *)

\* the word a dict gives to a slot
WordAt(assignment, var) ==
    CHOOSE w \in {assignment[k].word : k \in 1..Len(assignment)} :
        \E k \in 1..Len(assignment) : assignment[k] = Item(var, w)

\* f gives every slot a word of its length, no word twice, and crossing
\* slots the same letter in their shared cell
IsSolution(cw, f) ==
    /\ \A v \in Slots(cw) : Len(f[v]) = v.length
    /\ \A u, v \in Slots(cw) : u # v => f[u] # f[v]
    /\ \A u, v \in Slots(cw) :
          (u # v /\ Overlaps(u, v) # <<>>) =>
              f[u][Overlaps(u, v)[1] + 1] = f[v][Overlaps(u, v)[2] + 1]

SolutionExists(cw) == \E f \in [Slots(cw) -> cw.words] : IsSolution(cw, f)

Done == pc = "done"

----------------------------------------------------------------------------
(* Claims *)

\* C1: a result of solve() other than None assigns a word to every slot,
\* the words are pairwise distinct, each has its slot's length, and
\* neighbouring slots agree at their overlap, whatever ac3 returned.
SolveResultIsSolution ==
    (Done /\ result # None) =>
        /\ result.kind = "value"
        /\ Keys(result.value) = Slots(crossword)
        /\ Len(result.value) = Len(crossword.variables)
        /\ IsSolution(crossword, [v \in Slots(crossword) |-> WordAt(result.value, v)])

\* solve() has returned an assignment for a grid of three slots
SolveReturnedAssignment ==
    /\ Done
    /\ result # None
    /\ Len(crossword.variables) > 2

\* C2: when some complete assignment of distinct vocabulary words with
\* matching lengths and agreeing overlaps exists, solve() returns an
\* assignment, not None.
SolveFindsExistingSolution ==
    (Done /\ SolutionExists(crossword)) => (result # None /\ result.kind = "value")

\* solve() has returned for a grid of crossing slots that has a solution,
\* after ac3 removed a word
SolvedSolvableCrossword ==
    /\ Done
    /\ SolutionExists(crossword)
    /\ \E u, v \in Slots(crossword) : u # v /\ Overlaps(u, v) # <<>>
    /\ domains # EnforceNodeConsistency(InitialDomains(crossword))

\* C3: enforce_node_consistency leaves in every slot's domain exactly the
\* words of the previous domain that have the slot's length.
NodeConsistencyExact ==
    [][pc = "solve" =>
        \A v \in Slots(crossword) :
            Range(domains'[v]) = {w \in Range(domains[v]) : Len(w) = v.length}]_vars

\* node consistency has removed a word from a domain and kept another
NodeConsistencyFiltered ==
    /\ pc = "ac3"
    /\ \E v \in Slots(crossword) :
          /\ domains[v] # <<>>
          /\ Range(domains[v]) # crossword.words

\* C4: revise(x, y) never makes domain(x) larger, and it returns True
\* exactly when domain(x) is strictly smaller after the call.
ReviseShrinksAndReports ==
    call.op = "revise" =>
        /\ Len(domains[call.x]) <= Len(call.before[call.x])
        /\ call.ret = (Len(domains[call.x]) < Len(call.before[call.x]))

\* revise has returned True on a domain(x) larger than domain(y)
ReviseReturnedTrue ==
    /\ call.op = "revise"
    /\ call.ret
    /\ Len(call.before[call.x]) > Len(call.before[call.y])

\* C5: after revise(x, y), domain(x) holds exactly the words of the previous
\* domain(x) that agree, at the overlap indices of (x, y), with some word of
\* domain(y).
ReviseKeepsSupported ==
    call.op = "revise" =>
        LET idx_x == Overlaps(call.x, call.y)[1]
            idx_y == Overlaps(call.x, call.y)[2]
        IN Range(domains[call.x]) =
               {w \in Range(call.before[call.x]) :
                   \E w2 \in Range(call.before[call.y]) : w[idx_x + 1] = w2[idx_y + 1]}

\* revise has removed one word of domain(x) and kept another
RevisePartly ==
    /\ call.op = "revise"
    /\ domains[call.x] # <<>>
    /\ Len(domains[call.x]) < Len(call.before[call.x])

\* C9 (as claimed): consistent raises no error on any partial assignment,
\* and it returns True for the empty assignment and for a single slot with
\* a word of the slot's length, also when that slot has neighbours.
ConsistentSafeOnPartial ==
    call.op = "consistent" =>
        /\ call.ret \in {"True", "False"}
        /\ (Len(call.assignment) = 0) => call.ret = "True"
        /\ (/\ Len(call.assignment) = 1
            /\ Len(call.assignment[1].word) = call.assignment[1].var.length)
               => call.ret = "True"

\* C10: for an incomplete assignment, select_unassigned_variable returns a
\* slot outside the assignment whose domain is as small as that of any
\* unassigned slot.
SelectReturnsMinimumRemaining ==
    call.op = "select_unassigned_variable" =>
        /\ call.ret \in Slots(crossword) \ Keys(call.assignment)
        /\ \A v \in Slots(crossword) \ Keys(call.assignment) :
              Len(domains[call.ret]) <= Len(domains[v])

\* a slot was selected while another unassigned slot had a larger domain
SelectedAmongUnequal ==
    /\ call.op = "select_unassigned_variable"
    /\ \E v \in Slots(crossword) \ Keys(call.assignment) :
          Len(domains[call.ret]) < Len(domains[v])

\* C6: ac3 terminates: once started, it returns, with the worklist empty
\* or with a domain empty.
AC3Terminates ==
    (pc = "ac3") ~>
        (pc = "ac3_done" /\ (Len(queue) = 0 \/ \E v \in Slots(crossword) : domains[v] = <<>>))

\* ac3 has returned True after more arcs were processed than it started with
AC3ReturnedAfterRequeue ==
    /\ pc = "ac3_done"
    /\ acResult = Value(TRUE)
    /\ \E v \in Slots(crossword) :
          /\ Neighbors(crossword, v) # <<>>
          /\ domains[v] # EnforceNodeConsistency(InitialDomains(crossword))[v]

\* every word of every domain agrees with some word of each neighbour's
\* domain at their overlap
ArcConsistent ==
    \A x, y \in Slots(crossword) :
        (x # y /\ Overlaps(x, y) # <<>>) =>
            \A w \in Range(domains[x]) :
                \E w2 \in Range(domains[y]) :
                    w[Overlaps(x, y)[1] + 1] = w2[Overlaps(x, y)[2] + 1]

\* C7 (as claimed): when ac3 returns True no domain is empty, and when a
\* domain is empty ac3 returns False, also when node consistency already
\* left a domain empty.
AC3TrueMeansNoEmptyDomain ==
    pc = "ac3_done" =>
        (acResult = Value(TRUE)) = (\A v \in Slots(crossword) : domains[v] # <<>>)

\* C8 (as claimed): when ac3, called with no initial arcs, returns True,
\* every word left in a domain agrees with some word of each neighbour's
\* domain at their overlap.
AC3TrueMeansArcConsistent ==
    (pc = "ac3_done" /\ acResult = Value(TRUE)) => ArcConsistent

\* C11 (as claimed): when more than one slot is unassigned, the returned slot
\* has the highest degree among the unassigned slots of minimum domain size.
SelectReturnsHighestDegree ==
    (/\ call.op = "select_unassigned_variable"
     /\ Cardinality(Slots(crossword) \ Keys(call.assignment)) > 1) =>
        \A v \in Slots(crossword) \ Keys(call.assignment) :
            (\A u \in Slots(crossword) \ Keys(call.assignment) :
                Len(domains[v]) <= Len(domains[u]))
            => Len(Neighbors(crossword, call.ret)) >= Len(Neighbors(crossword, v))

\* the number of assigned neighbours of var whose word is w
CostOf(cw, assignment, var, w) ==
    Cardinality({n \in Slots(cw) :
        /\ n # var
        /\ Overlaps(n, var) # <<>>
        /\ \E k \in 1..Len(assignment) : assignment[k] = Item(n, w)})

Appended == SubSeq(queue', Len(queue), Len(queue'))

\* C14: ac3 takes the arc at the front of the worklist and leaves the others
\* in order; when revise(x, y) changes domain(x) and leaves it non-empty,
\* exactly one arc (x, n) per neighbour n of x is put at the back, and no
\* arc (n, x) is ever put there.
AC3WorklistIsFifo ==
    [][(pc = "ac3_loop" /\ Len(queue) # 0) =>
        LET x == Head(queue)[1] IN
        /\ Len(queue') >= Len(queue) - 1
        /\ SubSeq(queue', 1, Len(queue) - 1) = Tail(queue)
        /\ \A k \in 1..Len(Appended) : Appended[k][1] = x
        /\ IF domains'[x] # domains[x] /\ domains'[x] # <<>>
           THEN /\ Len(Appended) = Cardinality({n \in Slots(crossword) :
                                        n # x /\ Overlaps(x, n) # <<>>})
                /\ \A n \in Slots(crossword) :
                      (n # x /\ Overlaps(x, n) # <<>>) =>
                          \E k \in 1..Len(Appended) : Appended[k] = <<x, n>>
           ELSE Len(Appended) = 0]_vars

\* ac3 goes on after a revision that put arcs at the back of the worklist
AC3Requeued ==
    /\ pc = "ac3_loop"
    /\ Len(queue) # 0
    /\ domains # EnforceNodeConsistency(InitialDomains(crossword))

\* C15: when some slot's domain is empty as the search starts, and so
\* whenever ac3 returned False, backtrack from the empty assignment returns
\* None: no error and no assignment.
EmptyDomainGivesNone ==
    (Done /\ (acResult = Value(FALSE) \/ \E v \in Slots(crossword) : domains[v] = <<>>))
        => result = None

\* solve() has returned after ac3 returned False while another slot still
\* had words
SearchedWithEmptyDomain ==
    /\ Done
    /\ acResult = Value(FALSE)
    /\ \E v \in Slots(crossword) : domains[v] # <<>>

\* C16: backtrack leaves the domain store alone and never changes an
\* assignment it was given: a recursive call gets the assignment of its
\* caller extended by one slot, not assigned before, with a word of that
\* slot's domain, and the assignments of the calls in progress stay as they
\* are, also after a branch has failed.
BacktrackCopiesAssignment ==
    [][(pc \in {"backtrack", "return"}) =>
        /\ domains' = domains
        /\ \A k \in 1..Len(stack) :
              k <= Len(stack') => stack'[k].assignment = stack[k].assignment
        /\ Len(stack') <= Len(stack) + 1
        /\ Len(stack') = Len(stack) + 1 =>
              LET parent == stack[Len(stack)].assignment
                  child == stack'[Len(stack')].assignment
                  new == child[Len(child)]
              IN /\ Len(child) = Len(parent) + 1
                 /\ SubSeq(child, 1, Len(parent)) = parent
                 /\ new.var \in Slots(crossword) \ Keys(parent)
                 /\ new.word \in Range(domains[new.var])]_vars

\* a branch has failed below a call that holds a non-empty assignment and
\* has another value to try
BranchFailedUnderAssignment ==
    /\ pc = "backtrack"
    /\ Len(stack) > 1
    /\ retval = None
    /\ Top.at = "loop"
    /\ Top.next > 1
    /\ Top.next <= Len(Top.possible_values)

\* C17: backtrack started from the empty assignment terminates, with an
\* assignment or None, and its recursion is never deeper than one call per
\* slot plus the call on the complete assignment.
BacktrackTerminates ==
    /\ [](Len(stack) <= Len(crossword.variables) + 1)
    /\ (pc = "backtrack") ~> Done

\* solve() has returned None after a search that tried values for every slot
\* of a grid of three
SearchExhausted ==
    /\ Done
    /\ result = None
    /\ Len(crossword.variables) > 2
    /\ \A v \in Slots(crossword) : domains[v] # <<>>

\* C18: node consistency, revise and ac3 keep every solution: a word that
\* some complete consistent assignment gives to a slot stays in that slot's
\* domain, whether ac3 ends with True or with False.
SolutionsPreserved ==
    \A f \in [Slots(crossword) -> crossword.words] :
        IsSolution(crossword, f) =>
            \A v \in Slots(crossword) : f[v] \in Range(domains[v])

\* ac3 has returned after removing a word from the domain of a slot of a
\* crossword that has a solution
PrunedSolvableCrossword ==
    /\ pc = "ac3_done"
    /\ SolutionExists(crossword)
    /\ domains # EnforceNodeConsistency(InitialDomains(crossword))

\* C19: in solve(), consistent is evaluated on complete assignments only, so
\* its neighbour lookup finds a word and solve() never ends in a missing-key
\* error.
SolveRaisesNoKeyError ==
    /\ result.kind \in {"None", "value"}
    /\ (pc = "backtrack" /\ Top.at = "enter"
            /\ AssignmentComplete(crossword, Top.assignment))
        => /\ Keys(Top.assignment) = Slots(crossword)
           /\ Consistent(crossword, Top.assignment) \in {"True", "False"}

\* backtrack is about to evaluate consistent on an assignment in which two
\* neighbouring slots disagree
ConsistentAboutToReject ==
    /\ pc = "backtrack"
    /\ Top.at = "enter"
    /\ AssignmentComplete(crossword, Top.assignment)
    /\ Len(crossword.variables) > 1
    /\ Consistent(crossword, Top.assignment) = "False"

\* C20: revise(x, y) changes domain(x) only: the domain of y and of every
\* other slot, and the slot model with its overlaps and neighbours, are after
\* the call as they were before.
ReviseChangesOnlyX ==
    [][(pc = "idle" /\ call'.op = "revise") =>
        /\ crossword' = crossword
        /\ DOMAIN domains' = DOMAIN domains
        /\ \A v \in Slots(crossword) \ {call'.x} : domains'[v] = domains[v]]_vars

\* revise has removed a word from domain(x) in a grid of three slots
ReviseChangedXAmongThree ==
    /\ call.op = "revise"
    /\ call.ret
    /\ Len(crossword.variables) > 2

====
